---- MODULE Spec2Model ----
(***************************************************************************)
(* Model of SeamCarver (seam_carver.cpp): the energy field, the vertical   *)
(* seam locator, the raster editor, the transposing adapter and resize.    *)
(* A cv::Mat is a record [rows, cols, data]; data is a sequence of rows,   *)
(* each a sequence of cells.  Code indices are 0-based, sequences 1-based. *)
(* A pixel is modelled by one channel: the code treats the three channels  *)
(* of a cv::Vec3b alike and independently.                                 *)
(***************************************************************************)
EXTENDS Integers, Sequences, FiniteSets, TLC

VARIABLES
    m_image,          \* cv::Mat m_image
    m_energyMap,      \* cv::Mat m_energyMap
    m_protectionMask, \* cv::Mat m_protectionMask
    m_removalMask,    \* cv::Mat m_removalMask
    pc,               \* position inside resize
    phase,            \* "width" or "height": which half of resize is running
    status,           \* how the call ended
    newWidth,         \* argument of resize
    newHeight,        \* argument of resize
    currentWidth,     \* local of resize
    currentHeight,    \* local of resize
    i,                \* loop counter of the running seam loop
    seam,             \* local seam of the running loop iteration
    seams,            \* local seams of an expansion
    originalImage,    \* local originalImage of an expansion
    seamIdx,          \* per row, the local seamIdx at the end of the while loop of addVerticalSeams
    entry_image,      \* history: m_image when resize was entered
    entry_protect,    \* history: m_protectionMask when resize was entered
    entry_remove,     \* history: m_removalMask when resize was entered
    opt_width,        \* main: the width option as parsed (-1 when omitted)
    opt_height,       \* main: the height option as parsed (-1 when omitted)
    output,           \* the raster saveImage wrote, empty while none was written
    calls,            \* history: the number of resize calls entered on the carver
    ops,              \* history: the operations completed in the running resize, by kind
    cfm               \* create_face_mask: the locals of its main

vars == <<m_image, m_energyMap, m_protectionMask, m_removalMask, pc, phase,
          status, newWidth, newHeight, currentWidth, currentHeight, i, seam,
          seams, originalImage, seamIdx, entry_image, entry_protect,
          entry_remove, opt_width, opt_height, output, calls, ops, cfm>>

----
\* Bounds of the model.
MaxW == 2          \* widest starting raster of Spec
MaxH == 1          \* tallest starting raster of Spec
MaxTarget == 4     \* largest target dimension passed to resize in Spec
MaxFlag == 2       \* the mask files of Spec flag at most this many pixels in total
StepW == 3         \* widest starting raster of SpecStep
StepH == 2         \* tallest starting raster of SpecStep
StepFlag == 1      \* the mask files of SpecStep flag at most this many pixels in total
MaxHot == 1        \* a gradient field has at most this many non-zero cells
MaxStray == 1      \* reads outside a mask return at most this many non-zero bytes per pass
FaceW == 43        \* widest image of SpecFace
FaceH == 31        \* tallest image of SpecFace

\* Program constants.
MAX_ENERGY == 1000000000
MIN_ENERGY == -1000000000
UCHAR_MAX == 255
GRAD_MAX == 255
MIN_FACE == 30

----
\* cv::Mat
Mat(rows, cols, data) == [rows |-> rows, cols |-> cols, data |-> data]

\* a default-constructed cv::Mat
NoMat == Mat(0, 0, <<>>)

\* cv::Mat::empty(): no element
empty(m) == m.rows * m.cols = 0

\* cv::Mat::t()
t(m) == Mat(m.cols, m.rows,
            [c \in 1..m.cols |-> [r \in 1..m.rows |-> m.data[r][c]]])

\* The values an unflagged / flagged mask cell holds, and what a read outside
\* the mask's buffer may return.
MaskVals == {0, UCHAR_MAX}

\* What the code reads from mask m at the coordinates of a rows x cols raster:
\* the mask's own cell where (r, c) lies inside the mask, and a stray byte
\* where cv::Mat::at (unchecked in the documented build) reads outside it.
MaskReads(m, rows, cols) ==
    LET outside == {rc \in (1..rows) \X (1..cols) : rc[1] > m.rows \/ rc[2] > m.cols}
        stray == {nz \in SUBSET outside : Cardinality(nz) <= MaxStray}
    IN  {[r \in 1..rows |-> [c \in 1..cols |->
            IF <<r, c>> \in outside
            THEN (IF <<r, c>> \in nz THEN UCHAR_MAX ELSE 0)
            ELSE m.data[r][c]]] : nz \in stray}

\* TRUE iff every read of m at the coordinates of a rows x cols raster is in range
ReadsInRange(m, rows, cols) == rows <= m.rows /\ cols <= m.cols

----
\* double: the sums of the cost table exceed 32 bits, so a cost is kept as
\* hi * MAX_ENERGY + lo with 0 <= lo < MAX_ENERGY (exact, as the doubles are
\* for integral energies of this size).
Dbl(hi, lo) == [hi |-> hi, lo |-> lo]

\* an energy-map cell (|e| <= MAX_ENERGY) as a cost
ToDbl(e) == Dbl(e \div MAX_ENERGY, e % MAX_ENERGY)

\* cost + energy-map cell
DblAdd(d, e) ==
    LET s == d.lo + e IN Dbl(d.hi + (s \div MAX_ENERGY), s % MAX_ENERGY)

\* a < b on costs
DblLess(a, b) == a.hi < b.hi \/ (a.hi = b.hi /\ a.lo < b.lo)

\* std::numeric_limits<double>::max(): above every cost
DBL_MAX == Dbl(2147483647, 0)

----
\* The value a non-zero cell of a gradient field takes in the model: the top
\* of the normalized range
HotVals == {GRAD_MAX}

\* calculateEnergy, steps 1-3: the Sobel gradient magnitude of the raster
\* normalized to 0..GRAD_MAX, an external computation; any field with values
\* in the range may come out of it, here with at most MaxHot non-zero cells.
GradientFields(rows, cols) ==
    LET cells == (1..rows) \X (1..cols)
        hot == {h \in SUBSET cells : Cardinality(h) <= MaxHot}
    IN  UNION {{[r \in 1..rows |-> [c \in 1..cols |->
                    IF <<r, c>> \in h THEN v[<<r, c>>] ELSE 0]] :
                v \in [h -> HotVals]} : h \in hot}

\* calculateEnergy, step 4: a mutant whose protection pass tests the mask
\* cell against 1, which a white (255) cell never equals
ApplyMasks_ProtectTestsOne(img, grad, pm, rm, pread, rread) ==
    Mat(img.rows, img.cols,
        [r \in 1..img.rows |-> [c \in 1..img.cols |->
            IF ~empty(rm) /\ rread[r][c] > 0 THEN MIN_ENERGY
            ELSE IF ~empty(pm) /\ pread[r][c] = 1 THEN MAX_ENERGY
            ELSE grad[r][c]]])

\* calculateEnergy, step 4: a mutant whose removal pass sits inside the
\* protection pass's test, so that it runs only with a protection mask
ApplyMasks_RemovalNeedsProtect(img, grad, pm, rm, pread, rread) ==
    Mat(img.rows, img.cols,
        [r \in 1..img.rows |-> [c \in 1..img.cols |->
            IF ~empty(pm) /\ ~empty(rm) /\ rread[r][c] > 0 THEN MIN_ENERGY
            ELSE IF ~empty(pm) /\ pread[r][c] > 0 THEN MAX_ENERGY
            ELSE grad[r][c]]])

\* calculateEnergy, step 4: a mutant that runs the removal pass first and the
\* protection pass second
ApplyMasks_ProtectLast(img, grad, pm, rm, pread, rread) ==
    LET afterRemove == [r \in 1..img.rows |-> [c \in 1..img.cols |->
            IF ~empty(rm) /\ rread[r][c] > 0 THEN MIN_ENERGY ELSE grad[r][c]]]
    IN  Mat(img.rows, img.cols,
            [r \in 1..img.rows |-> [c \in 1..img.cols |->
                IF ~empty(pm) /\ pread[r][c] > 0 THEN MAX_ENERGY
                ELSE afterRemove[r][c]]])

\* calculateEnergy, step 4: grad with the masks applied, protection first and
\* removal second; pread and rread are what the two passes read from the masks.
ApplyMasks(img, grad, pm, rm, pread, rread) ==
    LET afterProtect == [r \in 1..img.rows |-> [c \in 1..img.cols |->
            IF ~empty(pm) /\ pread[r][c] > 0 THEN MAX_ENERGY ELSE grad[r][c]]]
    IN  Mat(img.rows, img.cols,
            [r \in 1..img.rows |-> [c \in 1..img.cols |->
                IF ~empty(rm) /\ rread[r][c] > 0 THEN MIN_ENERGY
                ELSE afterProtect[r][c]]])

----
\* findVerticalSeam, step 2, one cell: a mutant that never looks at the right
\* neighbour
MinAbove_NoRight(prev, cols, c) ==
    LET left   == IF c > 0 THEN prev[c] ELSE DBL_MAX
        middle == prev[c + 1]
    IN  IF DblLess(left, middle) THEN [minVal |-> left, minIdx |-> c - 1]
        ELSE [minVal |-> middle, minIdx |-> c]

\* findVerticalSeam, step 2, one cell: a mutant that takes the left neighbour
\* when it ties with the middle one (left <= minVal)
MinAbove_LeftOnTie(prev, cols, c) ==
    LET left   == IF c > 0 THEN prev[c] ELSE DBL_MAX
        middle == prev[c + 1]
        right  == IF c < cols - 1 THEN prev[c + 2] ELSE DBL_MAX
        m1 == IF ~DblLess(middle, left) THEN [minVal |-> left, minIdx |-> c - 1]
              ELSE [minVal |-> middle, minIdx |-> c]
    IN  IF DblLess(right, m1.minVal) THEN [minVal |-> right, minIdx |-> c + 1]
        ELSE m1

\* findVerticalSeam, step 2, one cell: the minimum of the up-to-three cells of
\* the previous cost row above column c (0-based) and the column it sits in.
MinAbove(prev, cols, c) ==
    LET left   == IF c > 0 THEN prev[c] ELSE DBL_MAX
        middle == prev[c + 1]
        right  == IF c < cols - 1 THEN prev[c + 2] ELSE DBL_MAX
        m1 == IF DblLess(left, middle) THEN [minVal |-> left, minIdx |-> c - 1]
              ELSE [minVal |-> middle, minIdx |-> c]
    IN  IF DblLess(right, m1.minVal) THEN [minVal |-> right, minIdx |-> c + 1]
        ELSE m1

\* findVerticalSeam, steps 1-2: row r (0-based) of dpCost
RECURSIVE dpCost(_, _, _)
dpCost(energy, cols, r) ==
    IF r = 0 THEN [c \in 1..cols |-> ToDbl(energy.data[1][c])]
    ELSE LET prev == dpCost(energy, cols, r - 1)
         IN  [c \in 1..cols |->
                 DblAdd(MinAbove(prev, cols, c - 1).minVal, energy.data[r + 1][c])]

\* findVerticalSeam, step 2: parent.at(r, c), 0-based, r >= 1
parent(energy, cols, r, c) == MinAbove(dpCost(energy, cols, r - 1), cols, c).minIdx

\* findVerticalSeam, step 3: the scan of the last row from column c on
RECURSIVE ScanLastRow(_, _, _, _)
ScanLastRow(last, c, minVal, minIdx) ==
    IF c >= Len(last) THEN minIdx
    ELSE IF DblLess(last[c + 1], minVal)
         THEN ScanLastRow(last, c + 1, last[c + 1], c)
         ELSE ScanLastRow(last, c + 1, minVal, minIdx)

\* findVerticalSeam, step 4: a mutant that takes the cheapest column of every
\* cost row instead of following the parents
Backtrack_RowMinimum(energy, rows, cols, r) ==
    ScanLastRow(dpCost(energy, cols, r), 0, DBL_MAX, 0)

\* findVerticalSeam, step 4: seam[r], 0-based
RECURSIVE Backtrack(_, _, _, _)
Backtrack(energy, rows, cols, r) ==
    IF r = rows - 1
    THEN ScanLastRow(dpCost(energy, cols, rows - 1), 0, DBL_MAX, 0)
    ELSE parent(energy, cols, r + 1, Backtrack(energy, rows, cols, r + 1))

\* findVerticalSeam: the seam as a sequence of 0-based columns, one per row
findVerticalSeam(img, energy) ==
    [r \in 1..img.rows |-> Backtrack(energy, img.rows, img.cols, r - 1)]

\* findHorizontalSeam: findVerticalSeam on the transposed members, which are
\* put back afterwards
findHorizontalSeam(img, energy) == findVerticalSeam(t(img), t(energy))

----
\* removeVerticalSeam, one buffer: a mutant that keeps the seam pixel and
\* drops its right neighbour (c <= seamCol)
DropColumns_OffByOne(data, rows, cols, sm) ==
    Mat(rows, cols - 1,
        [r \in 1..rows |-> [c \in 1..(cols - 1) |->
            IF c - 1 <= sm[r] THEN data[r][c] ELSE data[r][c + 1]]])

\* removeVerticalSeam, one buffer: data is what is read at the raster's
\* coordinates, sm the seam
DropColumns(data, rows, cols, sm) ==
    Mat(rows, cols - 1,
        [r \in 1..rows |-> [c \in 1..(cols - 1) |->
            IF c - 1 < sm[r] THEN data[r][c] ELSE data[r][c + 1]]])

\* removeHorizontalSeam, one buffer
DropRows(data, rows, cols, sm) ==
    Mat(rows - 1, cols,
        [r \in 1..(rows - 1) |-> [c \in 1..cols |->
            IF r - 1 < sm[c] THEN data[r][c] ELSE data[r + 1][c]]])

----
\* cv::Vec3b / 2: saturate_cast<uchar>(v * 0.5), which rounds half to even
Half(v) ==
    LET q == v \div 2
    IN  IF v % 2 = 0 THEN q ELSE IF q % 2 = 0 THEN q ELSE q + 1

\* cv::Vec3b + cv::Vec3b: saturating
SatAdd(a, b) == IF a + b > UCHAR_MAX THEN UCHAR_MAX ELSE a + b

\* std::sort on a sequence of ints (insertion into a sorted prefix)
RECURSIVE Insert(_, _)
Insert(sorted, x) ==
    IF sorted = <<>> \/ x >= sorted[Len(sorted)] THEN Append(sorted, x)
    ELSE Append(Insert(SubSeq(sorted, 1, Len(sorted) - 1), x), sorted[Len(sorted)])

RECURSIVE Sort(_)
Sort(s) == IF s = <<>> THEN <<>> ELSE Insert(Sort(SubSeq(s, 1, Len(s) - 1)), s[Len(s)])

\* addVerticalSeams: rowSeamIndices of row r (1-based), sorted
rowSeamIndices(sms, r) == Sort([k \in 1..Len(sms) |-> sms[k][r]])

\* addVerticalSeams: the pixel inserted after column oldCol (0-based) of row
newPixel(row, cols, oldCol) ==
    IF oldCol < cols - 1 THEN SatAdd(Half(row[oldCol + 1]), Half(row[oldCol + 2]))
    ELSE row[oldCol + 1]

\* addVerticalSeams: a mutant of the while loop without the newCol++ of line
\* 833, so that the synthesized pixel is written over the copied one
RECURSIVE WalkRow_NoAdvance(_, _, _, _, _, _)
WalkRow_NoAdvance(row, cols, idx, oldCol, sIdx, out) ==
    IF oldCol >= cols THEN [out |-> out, seamIdx |-> sIdx]
    ELSE IF sIdx < Len(idx) /\ oldCol = idx[sIdx + 1]
         THEN WalkRow_NoAdvance(row, cols, idx, oldCol + 1, sIdx + 1,
                                Append(out, newPixel(row, cols, oldCol)))
         ELSE WalkRow_NoAdvance(row, cols, idx, oldCol + 1, sIdx,
                                Append(out, row[oldCol + 1]))

\* addVerticalSeams: the while loop over one row from oldCol on; out is the
\* part of the new row written so far (newCol = Len(out)), sIdx is seamIdx
RECURSIVE WalkRow(_, _, _, _, _, _)
WalkRow(row, cols, idx, oldCol, sIdx, out) ==
    IF oldCol >= cols THEN [out |-> out, seamIdx |-> sIdx]
    ELSE LET copied == Append(out, row[oldCol + 1])
         IN  IF sIdx < Len(idx) /\ oldCol = idx[sIdx + 1]
             THEN WalkRow(row, cols, idx, oldCol + 1, sIdx + 1,
                          Append(copied, newPixel(row, cols, oldCol)))
             ELSE WalkRow(row, cols, idx, oldCol + 1, sIdx, copied)

\* addVerticalSeams: what the loop leaves in row r (1-based) of newImage
AddedRow(img, sms, r) ==
    WalkRow(img.data[r], img.cols, rowSeamIndices(sms, r), 0, 0, <<>>)

\* What a cell of newImage that no iteration wrote may hold
PixelVals == {0, UCHAR_MAX}

\* addVerticalSeams: the rasters the call can leave in m_image: rows x
\* (cols + numSeams), the cells the loop wrote as written and the others
\* holding whatever the fresh buffer held
addVerticalSeams(img, sms) ==
    LET width == img.cols + Len(sms)
        unwritten == {rc \in (1..img.rows) \X (1..width) :
                         rc[2] > Len(AddedRow(img, sms, rc[1]).out)}
    IN  {Mat(img.rows, width,
             [r \in 1..img.rows |-> [c \in 1..width |->
                 IF <<r, c>> \in unwritten THEN g[<<r, c>>]
                 ELSE AddedRow(img, sms, r).out[c]]]) :
         g \in [unwritten -> PixelVals]}

\* addHorizontalSeams: addVerticalSeams between two transposes; the seams are
\* copied entry for entry
addHorizontalSeams(img, sms) == {t(m) : m \in addVerticalSeams(t(img), sms)}

----
\* No operation of a resize completed yet
NoOps == [energy |-> 0, vfind |-> 0, hfind |-> 0, vremove |-> 0, hremove |-> 0,
          vadd |-> 0, hadd |-> 0]

\* create_face_mask is a program of its own; while the carver runs it does not
NotRun == [pc |-> "none"]

\* The raster imread delivers: rows x cols pixels, all different, so that every
\* pixel can be followed through the edits.
LoadedImage(rows, cols) ==
    Mat(rows, cols, [r \in 1..rows |-> [c \in 1..cols |-> (r - 1) * cols + c]])

\* The number of flagged cells of a mask
Flagged(m) ==
    Cardinality({rc \in (1..m.rows) \X (1..m.cols) : m.data[rc[1]][rc[2]] > 0})

\* SeamCarver::SeamCarver: a mask member is empty (no path given, or the file
\* did not load) or has the raster's size (cv::resize brings it there); here
\* with at most n flagged pixels.
LoadedMasks(rows, cols, n) ==
    {NoMat} \cup
    {m \in {Mat(rows, cols, d) : d \in [1..rows -> [1..cols -> MaskVals]]} :
        Flagged(m) <= n}

\* The state after construction, for rasters of at most maxH rows and maxW
\* columns and mask files that flag at most maxFlag pixels in total
Loaded(maxH, maxW, maxFlag) ==
    /\ \E rows \in 1..maxH, cols \in 1..maxW :
          /\ m_image = LoadedImage(rows, cols)
          /\ m_protectionMask \in LoadedMasks(rows, cols, maxFlag)
          /\ m_removalMask \in LoadedMasks(rows, cols, maxFlag - Flagged(m_protectionMask))
    /\ m_energyMap = NoMat
    /\ pc = "idle"
    /\ phase = "none"
    /\ status = "none"
    /\ newWidth = 0
    /\ newHeight = 0
    /\ currentWidth = 0
    /\ currentHeight = 0
    /\ i = 0
    /\ seam = <<>>
    /\ seams = <<>>
    /\ originalImage = NoMat
    /\ seamIdx = <<>>
    /\ entry_image = NoMat
    /\ entry_protect = NoMat
    /\ entry_remove = NoMat
    /\ opt_width = -1
    /\ opt_height = -1
    /\ output = NoMat
    /\ calls = 0
    /\ ops = NoOps
    /\ cfm = NotRun

Init == Loaded(MaxH, MaxW, MaxFlag)

InitStep == Loaded(StepH, StepW, StepFlag)

\* deltaCols in the width half, deltaRows in the height half
delta == IF phase = "width" THEN newWidth - currentWidth
         ELSE newHeight - currentHeight

\* resize, lines 599-600: a mutant whose height half is followed by the width
\* half once more
AfterHalf_WidthAgain == IF phase = "width" THEN "height" ELSE "width"

\* Where control goes when a half of resize is entered with the given delta:
\* into the seam loop, or past the half when delta = 0
AfterHalf == IF phase = "width" THEN "height" ELSE "return"

\* resize, line 565: a mutant that checks the width only
InvalidArgument_WidthOnly(w, h) == w < 0

\* resize, line 565: the argument check
InvalidArgument(w, h) == w < 0 \/ h < 0

\* resize, lines 564-570: the argument check and the two locals
\* (the caller's own variables are the caller's to set)
Resize(w, h) ==
    /\ pc = "idle"
    /\ newWidth' = w
    /\ newHeight' = h
    /\ entry_image' = m_image
    /\ entry_protect' = m_protectionMask
    /\ entry_remove' = m_removalMask
    /\ calls' = calls + 1
    /\ ops' = NoOps
    /\ IF InvalidArgument(w, h)
       THEN /\ pc' = "failed"
            /\ status' = "invalid_argument"
            /\ UNCHANGED <<currentWidth, currentHeight>>
       ELSE /\ pc' = "width"
            /\ status' = "running"
            /\ currentWidth' = m_image.cols
            /\ currentHeight' = m_image.rows
    /\ UNCHANGED <<m_image, m_energyMap, m_protectionMask, m_removalMask, phase,
                   i, seam, seams, originalImage, seamIdx, output, cfm>>

\* resize, lines 574 and 581 (width), 601 and 608 (height): a mutant whose
\* seam loop runs its body before it tests the count
EnterHalf_BodyFirst(d, half) == "energy"

\* resize, lines 574 and 581 (width), 601 and 608 (height): where control
\* goes when the given half is entered with delta d: into a seam loop, or
\* past the half when d = 0
EnterHalf(d, half) ==
    IF d = 0 THEN (IF half = "width" THEN "height" ELSE "return") ELSE "energy"

\* resize, lines 573-574, 581-587 (width) and 600-601, 608-612 (height): the
\* branch on delta; an expansion clones the raster and starts with no seam
BeginHalf ==
    /\ pc \in {"width", "height"}
    /\ phase' = pc
    /\ i' = 0
    /\ LET d == IF pc = "width" THEN newWidth - currentWidth
                ELSE newHeight - currentHeight
       IN  /\ pc' = EnterHalf(d, pc)
           /\ IF d > 0
              THEN originalImage' = m_image /\ seams' = <<>>
              ELSE UNCHANGED <<originalImage, seams>>
    /\ UNCHANGED <<m_image, m_energyMap, m_protectionMask, m_removalMask, status,
                   newWidth, newHeight, currentWidth, currentHeight, seam,
                   seamIdx, entry_image, entry_protect, entry_remove,
                   opt_width, opt_height, output, calls, ops, cfm>>

\* The masks as a step reads them at the raster's coordinates; an empty mask
\* is not read
ReadsOf(mask) ==
    IF empty(mask) THEN {<<>>} ELSE MaskReads(mask, m_image.rows, m_image.cols)

\* TRUE iff the step that reads the masks at the raster's coordinates stays
\* inside both
MaskReadsInRange ==
    /\ empty(m_protectionMask) \/ ReadsInRange(m_protectionMask, m_image.rows, m_image.cols)
    /\ empty(m_removalMask) \/ ReadsInRange(m_removalMask, m_image.rows, m_image.cols)

\* The call ends in an error
Fail(what) ==
    /\ pc' = "failed"
    /\ status' = what
    /\ UNCHANGED <<m_image, m_energyMap, m_protectionMask, m_removalMask, phase,
                   newWidth, newHeight, currentWidth, currentHeight, i, seam,
                   seams, originalImage, seamIdx, entry_image, entry_protect,
                   entry_remove, opt_width, opt_height, output, calls, ops, cfm>>

\* calculateEnergy, called at the top of each seam loop.  cv::cvtColor throws
\* on an empty raster.  A read outside a mask returns anything or faults.
CalculateEnergy ==
    /\ pc = "energy"
    /\ \/ /\ empty(m_image)
          /\ Fail("cv_exception")
       \/ /\ ~empty(m_image)
          /\ ~MaskReadsInRange
          /\ Fail("memory_fault")
       \/ /\ ~empty(m_image)
          /\ \E grad \in GradientFields(m_image.rows, m_image.cols),
                pread \in ReadsOf(m_protectionMask),
                rread \in ReadsOf(m_removalMask) :
                m_energyMap' = ApplyMasks(m_image, grad, m_protectionMask,
                                          m_removalMask, pread, rread)
          /\ pc' = "find"
          /\ ops' = [ops EXCEPT !.energy = @ + 1]
          /\ UNCHANGED <<m_image, m_protectionMask, m_removalMask, phase, status,
                         newWidth, newHeight, currentWidth, currentHeight, i,
                         seam, seams, originalImage, seamIdx, entry_image,
                         entry_protect, entry_remove, opt_width, opt_height,
                         output, calls, cfm>>

\* resize, lines 578 and 589-590: findVerticalSeam, recorded in an expansion
FindVerticalSeam ==
    /\ pc = "find"
    /\ ops' = [ops EXCEPT !.vfind = @ + 1]
    /\ phase = "width"
    /\ seam' = findVerticalSeam(m_image, m_energyMap)
    /\ seams' = IF delta > 0 THEN Append(seams, seam') ELSE seams
    /\ pc' = "remove"
    /\ UNCHANGED <<m_image, m_energyMap, m_protectionMask, m_removalMask, phase,
                   status, newWidth, newHeight, currentWidth, currentHeight, i,
                   originalImage, seamIdx, entry_image, entry_protect,
                   entry_remove, opt_width, opt_height, output, calls, cfm>>

\* findHorizontalSeam, lines 862-878: member m after "saved = m; m = m.t();
\* ...; m = saved".  The saved header shares m's buffer.  cv::transpose into
\* a destination of the source's size and type keeps the buffer and
\* transposes it in place, which is the case exactly for a square m; the
\* restored member then holds the transposed content.  Otherwise m.t() gets
\* a buffer of its own and the restored member is as it was.
Restored(m) == IF m.rows = m.cols THEN t(m) ELSE m

\* resize, lines 605 and 614-615: findHorizontalSeam, recorded in an
\* expansion; an empty mask is not transposed
FindHorizontalSeam ==
    /\ pc = "find"
    /\ ops' = [ops EXCEPT !.hfind = @ + 1]
    /\ phase = "height"
    /\ seam' = findHorizontalSeam(m_image, m_energyMap)
    /\ seams' = IF delta > 0 THEN Append(seams, seam') ELSE seams
    /\ m_image' = Restored(m_image)
    /\ m_energyMap' = Restored(m_energyMap)
    /\ m_protectionMask' = Restored(m_protectionMask)
    /\ m_removalMask' = Restored(m_removalMask)
    /\ pc' = "remove"
    /\ UNCHANGED <<phase, status, newWidth, newHeight, currentWidth,
                   currentHeight, i, originalImage, seamIdx, entry_image,
                   entry_protect, entry_remove, opt_width, opt_height, output,
                   calls, cfm>>

\* The end of a loop iteration: a mutant of a loop with calculateEnergy
\* hoisted in front of it, whose next iteration starts at the seam search
LoopBack_EnergyHoisted ==
    /\ i' = i + 1
    /\ pc' = IF i + 1 < (IF delta < 0 THEN -delta ELSE delta) THEN "find"
             ELSE IF delta > 0 THEN "add"
             ELSE AfterHalf

\* The end of a loop iteration: ++i and the loop test; after the last
\* iteration an expansion goes on to its insertion
LoopBack ==
    /\ i' = i + 1
    /\ pc' = IF i + 1 < (IF delta < 0 THEN -delta ELSE delta) THEN "energy"
             ELSE IF delta > 0 THEN "add"
             ELSE AfterHalf

\* removeVerticalSeam, lines 782-802: a mutant that builds newMask and does
\* not assign it
MaskWithoutSeamColumn_NotAssigned(mask, read, sm) == mask

\* removeVerticalSeam, lines 782-802: a mutant whose mask loops take seam[0]
\* as the seam column of every row
MaskWithoutSeamColumn_FirstRowSeam(mask, read, sm) ==
    IF empty(mask) THEN mask
    ELSE DropColumns(read, m_image.rows, m_image.cols,
                     [r \in 1..m_image.rows |-> sm[1]])

\* removeVerticalSeam, lines 782-802: a mask after the call; read is what the
\* loop reads from it
MaskWithoutSeamColumn(mask, read, sm) ==
    IF empty(mask) THEN mask
    ELSE DropColumns(read, m_image.rows, m_image.cols, sm)

\* removeHorizontalSeam, lines 907-927: a mask after the call
MaskWithoutSeamRow(mask, read, sm) ==
    IF empty(mask) THEN mask
    ELSE DropRows(read, m_image.rows, m_image.cols, sm)

\* removeVerticalSeam on the raster and on each mask that is not empty
RemoveVerticalSeam ==
    /\ pc = "remove"
    /\ phase = "width"
    /\ \/ /\ ~MaskReadsInRange
          /\ Fail("memory_fault")
       \/ /\ m_image' = DropColumns(m_image.data, m_image.rows, m_image.cols, seam)
          /\ \E pread \in ReadsOf(m_protectionMask), rread \in ReadsOf(m_removalMask) :
                /\ m_protectionMask' = MaskWithoutSeamColumn(m_protectionMask, pread, seam)
                /\ m_removalMask' = MaskWithoutSeamColumn(m_removalMask, rread, seam)
          /\ ops' = [ops EXCEPT !.vremove = @ + 1]
          /\ LoopBack
          /\ UNCHANGED <<m_energyMap, phase, status, newWidth, newHeight,
                         currentWidth, currentHeight, seam, seams, originalImage,
                         seamIdx, entry_image, entry_protect, entry_remove,
                         opt_width, opt_height, output, calls, cfm>>

\* removeHorizontalSeam on the raster and on each mask that is not empty
RemoveHorizontalSeam ==
    /\ pc = "remove"
    /\ phase = "height"
    /\ \/ /\ ~MaskReadsInRange
          /\ Fail("memory_fault")
       \/ /\ m_image' = DropRows(m_image.data, m_image.rows, m_image.cols, seam)
          /\ \E pread \in ReadsOf(m_protectionMask), rread \in ReadsOf(m_removalMask) :
                /\ m_protectionMask' = MaskWithoutSeamRow(m_protectionMask, pread, seam)
                /\ m_removalMask' = MaskWithoutSeamRow(m_removalMask, rread, seam)
          /\ ops' = [ops EXCEPT !.hremove = @ + 1]
          /\ LoopBack
          /\ UNCHANGED <<m_energyMap, phase, status, newWidth, newHeight,
                         currentWidth, currentHeight, seam, seams, originalImage,
                         seamIdx, entry_image, entry_protect, entry_remove,
                         opt_width, opt_height, output, calls, cfm>>

\* resize, lines 595-596: the original raster is put back and addVerticalSeams
\* inserts the recorded seams
AddVerticalSeams ==
    /\ pc = "add"
    /\ ops' = [ops EXCEPT !.vadd = @ + 1]
    /\ phase = "width"
    /\ m_image' \in addVerticalSeams(originalImage, seams)
    /\ seamIdx' = [r \in 1..originalImage.rows |->
                      AddedRow(originalImage, seams, r).seamIdx]
    /\ pc' = "height"
    /\ UNCHANGED <<m_energyMap, m_protectionMask, m_removalMask, phase, status,
                   newWidth, newHeight, currentWidth, currentHeight, i, seam,
                   seams, originalImage, entry_image, entry_protect, entry_remove,
                   opt_width, opt_height, output, calls, cfm>>

\* resize, lines 618-619: the original raster is put back and
\* addHorizontalSeams inserts the recorded seams
AddHorizontalSeams ==
    /\ pc = "add"
    /\ ops' = [ops EXCEPT !.hadd = @ + 1]
    /\ phase = "height"
    /\ m_image' \in addHorizontalSeams(originalImage, seams)
    /\ seamIdx' = [r \in 1..originalImage.cols |->
                      AddedRow(t(originalImage), seams, r).seamIdx]
    /\ pc' = "return"
    /\ UNCHANGED <<m_energyMap, m_protectionMask, m_removalMask, phase, status,
                   newWidth, newHeight, currentWidth, currentHeight, i, seam,
                   seams, originalImage, entry_image, entry_protect, entry_remove,
                   opt_width, opt_height, output, calls, cfm>>

\* resize, line 622-623: the call returns
Return ==
    /\ pc = "return"
    /\ pc' = "done"
    /\ status' = "ok"
    /\ UNCHANGED <<m_image, m_energyMap, m_protectionMask, m_removalMask, phase,
                   newWidth, newHeight, currentWidth, currentHeight, i, seam,
                   seams, originalImage, seamIdx, entry_image, entry_protect,
                   entry_remove, opt_width, opt_height, output, calls, ops, cfm>>

\* main, lines 1001-1008: a mutant that passes the options on as parsed
Defaulted_AsParsed(opt, dim) == opt

\* main, lines 1001-1008: the target for an option; tempImg is the input file
\* read once more, so dim is the dimension the carver loaded
Defaulted(opt, dim) == IF opt = -1 THEN dim ELSE opt

\* main, lines 984-985 and 1001-1012: the options are parsed, the omitted
\* ones get the image's dimension, and resize is called
Main(wo, ho) ==
    /\ opt_width' = wo
    /\ opt_height' = ho
    /\ Resize(Defaulted(wo, m_image.cols), Defaulted(ho, m_image.rows))

\* main, lines 1011-1014: a mutant in which saveImage also runs after resize
\* has thrown
SaveReached_AfterCatch == pc \in {"done", "failed"}

\* main, lines 1011-1014: saveImage is the statement after resize inside the
\* try block
SaveReached == pc = "done"

\* saveImage: imwrite writes the raster, or writes nothing (an empty raster,
\* or a path it cannot write) and the call throws
SaveImage ==
    /\ SaveReached
    /\ \/ /\ ~empty(m_image)
          /\ output' = m_image
          /\ pc' = "saved"
          /\ UNCHANGED status
       \/ /\ pc' = "unsaved"
          /\ status' = "save_error"
          /\ UNCHANGED output
    /\ UNCHANGED <<m_image, m_energyMap, m_protectionMask, m_removalMask, phase,
                   newWidth, newHeight, currentWidth, currentHeight, i, seam,
                   seams, originalImage, seamIdx, entry_image, entry_protect,
                   entry_remove, opt_width, opt_height, calls, ops, cfm>>

\* A caller that holds the carver after a first resize goes on to a second
NextCall ==
    /\ pc = "done"
    /\ calls = 1
    /\ pc' = "idle"
    /\ UNCHANGED <<m_image, m_energyMap, m_protectionMask, m_removalMask, phase,
                   status, newWidth, newHeight, currentWidth, currentHeight, i,
                   seam, seams, originalImage, seamIdx, entry_image,
                   entry_protect, entry_remove, opt_width, opt_height, output,
                   calls, ops, cfm>>

\* The steps inside a running resize
Step ==
    \/ BeginHalf
    \/ CalculateEnergy
    \/ FindVerticalSeam
    \/ FindHorizontalSeam
    \/ RemoveVerticalSeam
    \/ RemoveHorizontalSeam
    \/ AddVerticalSeams
    \/ AddHorizontalSeams
    \/ Return

\* Spec: the program run on a small raster with any options, the omitted
\* (-1) and the negative ones included
Next ==
    \/ \E wo \in -2..MaxTarget, ho \in -2..MaxTarget : Main(wo, ho)
    \/ Step
    \/ SaveImage

Spec == Init /\ [][Next]_vars

\* SpecStep: the program run, up to the return of resize, on a larger raster
\* with options that remove at most one seam, along one axis, or that are
\* negative
NextStep ==
    \/ \E wo \in {-2, -1, m_image.cols - 1}, ho \in {-2, -1, m_image.rows - 1} :
          /\ wo < 0 \/ ho < 0
          /\ Main(wo, ho)
    \/ BeginHalf
    \/ CalculateEnergy
    \/ FindVerticalSeam
    \/ FindHorizontalSeam
    \/ RemoveVerticalSeam
    \/ RemoveHorizontalSeam
    \/ Return

SpecStep == InitStep /\ [][NextStep]_vars

\* SpecTrip: one carver, two calls: resize to one column less, then resize
\* back to the width it had
InitTrip == Loaded(StepH, StepW, StepFlag)

NextTrip ==
    \/ /\ calls = 0
       /\ Resize(m_image.cols - 1, m_image.rows)
       /\ UNCHANGED <<opt_width, opt_height>>
    \/ NextCall
    \/ /\ calls = 1
       /\ Resize(m_image.cols + 1, m_image.rows)
       /\ UNCHANGED <<opt_width, opt_height>>
    \/ BeginHalf
    \/ CalculateEnergy
    \/ FindVerticalSeam
    \/ RemoveVerticalSeam
    \/ AddVerticalSeams
    \/ Return

SpecTrip == InitTrip /\ [][NextTrip]_vars

\* SpecEnergy: the program run up to its first energy computation, with mask
\* files that may flag the same pixel
InitEnergy == Loaded(StepH, StepW, MaxFlag)

NextEnergy ==
    \/ Main(m_image.cols - 1, -1)
    \/ BeginHalf
    \/ CalculateEnergy

SpecEnergy == InitEnergy /\ [][NextEnergy]_vars

\* SpecGrow: the program run, up to the return of resize, with options that
\* add two columns or two rows, and mask files that flag nothing
InitGrow == Loaded(StepH, StepW, 0)

NextGrow ==
    \/ Main(m_image.cols + 2, -1)
    \/ Main(-1, m_image.rows + 2)
    \/ BeginHalf
    \/ CalculateEnergy
    \/ FindVerticalSeam
    \/ FindHorizontalSeam
    \/ RemoveVerticalSeam
    \/ RemoveHorizontalSeam
    \/ AddVerticalSeams
    \/ AddHorizontalSeams
    \/ Return

SpecGrow == InitGrow /\ [][NextGrow]_vars

----
\* create_face_mask.

\* cv::Rect
Rect(x, y, width, height) == [x |-> x, y |-> y, width |-> width, height |-> height]

\* std::max, std::min
max(a, b) == IF a > b THEN a ELSE b

min(a, b) == IF a < b THEN a ELSE b

\* faces.size(): the detector reports no face or one face
FaceCounts == {0, 1}

\* The spans [start, start + length) of at least MIN_FACE inside 0..n
Spans(n) == {sl \in (0..n) \X (MIN_FACE..n) : sl[1] + sl[2] <= n}

\* detectMultiScale with minSize 30 x 30, an external computation: any
\* rectangle of at least that size inside the image may come out of it
DetectedFaces(rows, cols) ==
    {Rect(h[1], v[1], h[2], v[2]) : h \in Spans(cols), v \in Spans(rows)}

\* The sequences of n elements of set S, n = 0 or 1
FaceLists(S) == UNION {[1..n -> S] : n \in FaceCounts}

\* main, lines 92-98: a mutant that does not clip width and height to the
\* image
ExpandedFace_Unclipped(face, rows, cols) ==
    LET expandX == face.width \div 5
        expandY == face.height \div 5
    IN  Rect(max(0, face.x - expandX), max(0, face.y - expandY),
             face.width + 2 * expandX, face.height + 2 * expandY)

\* main, lines 89-98: the face rectangle expanded by 20% on each side;
\* static_cast<int>(n * 0.2) is n \div 5 for n >= 0
ExpandedFace(face, rows, cols) ==
    LET expandX == face.width \div 5
        expandY == face.height \div 5
        x == max(0, face.x - expandX)
        y == max(0, face.y - expandY)
    IN  Rect(x, y, min(cols - x, face.width + 2 * expandX),
                   min(rows - y, face.height + 2 * expandY))

\* cv::rectangle(mask, rec, 255, -1): the cells of rec inside the buffer are
\* filled with white
rectangle(m, rec) ==
    Mat(m.rows, m.cols,
        [r \in 1..m.rows |-> [c \in 1..m.cols |->
            IF /\ rec.x <= c - 1 /\ c - 1 < rec.x + rec.width
               /\ rec.y <= r - 1 /\ r - 1 < rec.y + rec.height
            THEN UCHAR_MAX ELSE m.data[r][c]]])

\* The carver's variables, which create_face_mask leaves alone
carver == <<m_image, m_energyMap, m_protectionMask, m_removalMask, pc, phase,
            status, newWidth, newHeight, currentWidth, currentHeight, i, seam,
            seams, originalImage, seamIdx, entry_image, entry_protect,
            entry_remove, opt_width, opt_height, output, calls, ops>>

\* main, lines 30-37: the image is loaded and the mask is black
InitFace ==
    /\ \E rows \in 1..FaceH, cols \in 1..FaceW :
          cfm = [pc |-> "detect", rows |-> rows, cols |-> cols,
                 mask |-> Mat(rows, cols, [r \in 1..rows |-> [c \in 1..cols |-> 0]]),
                 faces |-> <<>>, i |-> 0, expandedFace |-> Rect(0, 0, 0, 0)]
    /\ m_image = NoMat
    /\ m_energyMap = NoMat
    /\ m_protectionMask = NoMat
    /\ m_removalMask = NoMat
    /\ pc = "none"
    /\ phase = "none"
    /\ status = "none"
    /\ newWidth = 0
    /\ newHeight = 0
    /\ currentWidth = 0
    /\ currentHeight = 0
    /\ i = 0
    /\ seam = <<>>
    /\ seams = <<>>
    /\ originalImage = NoMat
    /\ seamIdx = <<>>
    /\ entry_image = NoMat
    /\ entry_protect = NoMat
    /\ entry_remove = NoMat
    /\ opt_width = -1
    /\ opt_height = -1
    /\ output = NoMat
    /\ calls = 0
    /\ ops = NoOps

\* main, lines 77-78: the detector fills faces
DetectFaces ==
    /\ cfm.pc = "detect"
    /\ \E faces \in FaceLists(DetectedFaces(cfm.rows, cfm.cols)) :
          cfm' = [cfm EXCEPT !.pc = "loop", !.faces = faces]
    /\ UNCHANGED carver

\* main, lines 88-105: one iteration of the loop over faces
DrawFace ==
    /\ cfm.pc = "loop"
    /\ cfm.i < Len(cfm.faces)
    /\ LET expandedFace == ExpandedFace(cfm.faces[cfm.i + 1], cfm.rows, cfm.cols)
       IN  cfm' = [cfm EXCEPT !.expandedFace = expandedFace,
                              !.mask = rectangle(cfm.mask, expandedFace),
                              !.i = cfm.i + 1]
    /\ UNCHANGED carver

\* main, lines 108-117: the mask is written, or imwrite fails
SaveMask ==
    /\ cfm.pc = "loop"
    /\ cfm.i >= Len(cfm.faces)
    /\ \E saved \in {"saved", "save_error"} : cfm' = [cfm EXCEPT !.pc = saved]
    /\ UNCHANGED carver

NextFace == DetectFaces \/ DrawFace \/ SaveMask

SpecFace == InitFace /\ [][NextFace]_vars

----
\* Notions the properties are stated with.

\* The call is parked between the seam search and the seam removal: seam is
\* what the locator just returned for the raster, masks and energy map as
\* they stand
SeamFound == pc = "remove"

\* TRUE iff mask m is present and has the raster's dimensions
Overlays(m) == ~empty(m) /\ m.rows = m_image.rows /\ m.cols = m_image.cols

\* TRUE iff each present mask has the raster's dimensions
MasksFit ==
    /\ empty(m_protectionMask) \/ Overlays(m_protectionMask)
    /\ empty(m_removalMask) \/ Overlays(m_removalMask)

\* Member m, as it stands after a seam search, in the frame the vertical
\* locator ran in: the member itself in the width half, its transpose in the
\* height half (a square member was left transposed by findHorizontalSeam)
Searched(m) == IF phase = "width" THEN m ELSE IF m.rows = m.cols THEN m ELSE t(m)

\* All connected vertical seams of a rows x cols field (0-based columns)
ConnectedSeams(rows, cols) ==
    {s \in [1..rows -> 0..(cols - 1)] :
        \A r \in 1..(rows - 1) : s[r + 1] - s[r] \in {-1, 0, 1}}

\* The total energy of the first n rows of seam s
RECURSIVE SeamCost(_, _, _)
SeamCost(energy, s, n) ==
    IF n = 0 THEN Dbl(0, 0)
    ELSE DblAdd(SeamCost(energy, s, n - 1), energy.data[n][s[n] + 1])

\* TRUE iff vertical seam s passes through no flagged cell of mask m
Avoids(s, m) == \A r \in 1..Len(s) : m.data[r][s[r] + 1] = 0

----
\* C1 (as claimed): every resize with non-negative targets completes and
\* leaves a raster of exactly the target width and height.
C1_ResizeReachesTarget ==
    (pc \in {"done", "failed"} /\ newWidth >= 0 /\ newHeight >= 0) =>
        /\ pc = "done"
        /\ m_image.cols = newWidth
        /\ m_image.rows = newHeight

----
\* C2 (as claimed): no seam returned while a protection mask is active passes
\* through a protected pixel, whatever the energy field, the mask shape and
\* the removal mask.
C2_NoSeamThroughProtected ==
    (SeamFound /\ Overlays(m_protectionMask)) =>
        Avoids(seam, Searched(m_protectionMask))

\* C2 (amended): with masks of the raster's size and no pixel flagged for
\* removal, the returned seam passes through no protected pixel whenever some
\* connected seam avoids all protected pixels.
C2_ProtectedAvoidedWhenPossible ==
    (/\ SeamFound
     /\ Overlays(m_protectionMask)
     /\ MasksFit
     /\ Flagged(m_removalMask) = 0
     /\ \E s \in ConnectedSeams(Searched(m_image).rows, Searched(m_image).cols) :
           Avoids(s, Searched(m_protectionMask)))
    => Avoids(seam, Searched(m_protectionMask))

\* C2 witness: a vertical seam was found that bends around a protected pixel.
C2_Witness ==
    /\ SeamFound
    /\ phase = "width"
    /\ Overlays(m_protectionMask)
    /\ Flagged(m_removalMask) = 0
    /\ m_image.rows >= 2
    /\ m_protectionMask.data[2][seam[1] + 1] > 0
    /\ seam[2] # seam[1]
    /\ Avoids(seam, m_protectionMask)

----
\* C3: a seam returned by findVerticalSeam has one entry per row, each a column
\* of the raster, consecutive entries at most 1 apart; a seam returned by
\* findHorizontalSeam has one entry per column, each a row of the raster,
\* consecutive entries at most 1 apart.
C3_SeamValid ==
    SeamFound =>
        /\ phase = "width" =>
              /\ Len(seam) = m_image.rows
              /\ \A r \in 1..Len(seam) : seam[r] >= 0 /\ seam[r] < m_image.cols
        /\ phase = "height" =>
              /\ Len(seam) = m_image.cols
              /\ \A c \in 1..Len(seam) : seam[c] >= 0 /\ seam[c] < m_image.rows
        /\ \A k \in 1..(Len(seam) - 1) :
              seam[k + 1] - seam[k] <= 1 /\ seam[k] - seam[k + 1] <= 1

\* C3 witness: a vertical seam over three columns that changes column and
\* ends in the last one.
C3_Witness ==
    /\ SeamFound
    /\ phase = "width"
    /\ m_image.cols = 3
    /\ m_image.rows = 2
    /\ seam[1] # seam[2]
    /\ seam[2] = 2

----
\* C4: no connected seam has a smaller total energy than the seam
\* findVerticalSeam returns (in the height half: on the transposed field).
C4_SeamOptimal ==
    SeamFound =>
        LET energy == Searched(m_energyMap)
        IN  \A s \in ConnectedSeams(energy.rows, energy.cols) :
               ~DblLess(SeamCost(energy, s, energy.rows),
                        SeamCost(energy, seam, energy.rows))

\* C4 witness: the returned vertical seam changes column and is strictly
\* cheaper than some other connected seam.
C4_Witness ==
    /\ SeamFound
    /\ phase = "width"
    /\ m_image.rows >= 2
    /\ seam[1] # seam[2]
    /\ \E s \in ConnectedSeams(m_image.rows, m_image.cols) :
          DblLess(SeamCost(m_energyMap, seam, m_image.rows),
                  SeamCost(m_energyMap, s, m_image.rows))

----
\* C5: resize with a negative target fails with the invalid-argument error
\* and nothing else happens: raster, masks and energy map are as before the
\* call, and no seam was searched or recorded.
C5_NegativeTargetRejected ==
    (pc # "idle" /\ (newWidth < 0 \/ newHeight < 0)) =>
        /\ pc = "failed"
        /\ status = "invalid_argument"
        /\ m_image = entry_image
        /\ m_protectionMask = entry_protect
        /\ m_removalMask = entry_remove
        /\ m_energyMap = NoMat
        /\ seam = <<>>
        /\ seams = <<>>

\* C5 witness: a call with a negative height and a valid width has failed.
C5_Witness ==
    /\ status = "invalid_argument"
    /\ newHeight < 0
    /\ newWidth = m_image.cols - 1
    /\ Flagged(m_protectionMask) > 0

----
\* C6 (as claimed): between the seam operations of a resize and after it
\* returns, a mask that is present has the raster's dimensions, also after an
\* expansion.
C6_MasksOverlayRaster ==
    (pc \in {"energy", "add", "height", "return", "done"}) => MasksFit

----
\* C7: a single removeVerticalSeam or removeHorizontalSeam made where each
\* present mask has the raster's dimensions leaves the raster one column
\* (one row) smaller and each of those masks with the edited raster's
\* dimensions.
C7_MasksShrinkWithRaster ==
    [][(pc = "remove" /\ MasksFit /\ pc' # "failed") =>
          /\ phase = "width" =>
                m_image'.rows = m_image.rows /\ m_image'.cols = m_image.cols - 1
          /\ phase = "height" =>
                m_image'.rows = m_image.rows - 1 /\ m_image'.cols = m_image.cols
          /\ ~empty(m_protectionMask) =>
                /\ m_protectionMask'.rows = m_image'.rows
                /\ m_protectionMask'.cols = m_image'.cols
          /\ ~empty(m_removalMask) =>
                /\ m_removalMask'.rows = m_image'.rows
                /\ m_removalMask'.cols = m_image'.cols]_vars

\* C7 witness: a vertical seam was removed from a raster of 3 columns and 2
\* rows carrying both masks, which have 2 columns and 2 rows like the raster.
C7_Witness ==
    /\ pc = "height"
    /\ phase = "width"
    /\ i = 1
    /\ currentWidth = 3
    /\ currentHeight = 2
    /\ Overlays(m_protectionMask)
    /\ Overlays(m_removalMask)
    /\ m_image.cols = 2
    /\ m_image.rows = 2

----
\* C8: removeVerticalSeam keeps the height, and in every row keeps the pixels
\* left of the seam column followed by the pixels right of it, in order: the
\* row loses exactly its seam pixel.
C8_SeamPixelDropped ==
    [][(pc = "remove" /\ phase = "width" /\ pc' # "failed") =>
          /\ m_image'.rows = m_image.rows
          /\ m_image'.cols = m_image.cols - 1
          /\ \A r \in 1..m_image.rows :
                m_image'.data[r] =
                    SubSeq(m_image.data[r], 1, seam[r]) \o
                    SubSeq(m_image.data[r], seam[r] + 2, m_image.cols)]_vars

\* C8 witness: a seam that changes column was removed from a raster of 3
\* columns and 2 rows; row 1 lost its middle pixel, row 2 another one.
C8_Witness ==
    /\ pc = "height"
    /\ phase = "width"
    /\ i = 1
    /\ entry_image = LoadedImage(2, 3)
    /\ seam[1] = 1
    /\ seam[2] # 1
    /\ m_image.data[1] = <<1, 3>>
    /\ m_image.cols = 2

----
\* The state right after addVerticalSeams of a width expansion
WidthInserted == pc = "height" /\ phase = "width" /\ newWidth > currentWidth

\* C9 (as claimed): addVerticalSeams with k seams on a raster of width W
\* leaves width W + k and gives every row exactly k synthesized pixels (every
\* cell written), also when seams share a column index in a row.
C9_EveryRowGetsAllSeams ==
    WidthInserted =>
        /\ m_image.cols = originalImage.cols + Len(seams)
        /\ \A r \in 1..m_image.rows : seamIdx[r] = Len(seams)

----
\* The 0-based output column of original column c of row r after the
\* insertion: c plus the synthesized pixels placed left of it
OutputColumn(r, c) ==
    c + Cardinality({j \in 1..seamIdx[r] : rowSeamIndices(seams, r)[j] < c})

\* C10 (as claimed): after a width expansion two horizontally adjacent
\* protected pixels of a row are still adjacent in the output row, with their
\* values: no synthesized pixel sits between them.
C10_ProtectedRunsStayContiguous ==
    (WidthInserted /\ ~empty(entry_protect)) =>
        \A r \in 1..entry_image.rows : \A c \in 1..(entry_image.cols - 1) :
            (entry_protect.data[r][c] > 0 /\ entry_protect.data[r][c + 1] > 0) =>
                /\ OutputColumn(r, c) = OutputColumn(r, c - 1) + 1
                /\ m_image.data[r][OutputColumn(r, c - 1) + 1] = entry_image.data[r][c]
                /\ m_image.data[r][OutputColumn(r, c) + 1] = entry_image.data[r][c + 1]

----
\* TRUE iff seam s of the searched frame passes through a flagged cell of
\* mask m
Crosses(s, m) == \E r \in 1..Len(s) : m.data[r][s[r] + 1] > 0

\* C11: with a removal mask of the raster's size that flags at least one
\* pixel and no protected pixel, the seam findVerticalSeam returns passes
\* through a removal-flagged pixel, whatever the gradient field (in the
\* height half: findVerticalSeam on the transposed members).
C11_SeamTakesRemovalPixel ==
    (/\ SeamFound
     /\ MasksFit
     /\ Flagged(m_removalMask) >= 1
     /\ Flagged(m_protectionMask) = 0)
    => Crosses(seam, Searched(m_removalMask))

\* C11 witness: below a pixel of top gradient sits the one removal-flagged
\* pixel; the vertical seam bends to pass through it.
C11_Witness ==
    /\ SeamFound
    /\ phase = "width"
    /\ m_image.cols = 3
    /\ m_image.rows = 2
    /\ empty(m_protectionMask)
    /\ Flagged(m_removalMask) = 1
    /\ m_removalMask.data[2][2] > 0
    /\ m_energyMap.data[1][2] = GRAD_MAX
    /\ seam[2] = 1
    /\ seam[1] # 1

----
\* C12: resize called with the raster's own width and height changes
\* nothing: raster and masks stay as they were, control passes both halves
\* without entering a seam loop, so no energy map is computed and no seam is
\* searched, removed or inserted.
C12_SameSizeIsNoOp ==
    (calls >= 1 /\ newWidth = entry_image.cols /\ newHeight = entry_image.rows) =>
        /\ pc \in {"width", "height", "return", "done"}
        /\ status \in {"running", "ok"}
        /\ m_image = entry_image
        /\ m_protectionMask = entry_protect
        /\ m_removalMask = entry_remove
        /\ m_energyMap = NoMat
        /\ seam = <<>>
        /\ seams = <<>>

\* C12 witness: resize to the raster's own size has returned on a raster of 3
\* columns and 2 rows that carries a protected pixel.
C12_Witness ==
    /\ pc = "done"
    /\ status = "ok"
    /\ newWidth = 3
    /\ newHeight = 2
    /\ entry_image = LoadedImage(2, 3)
    /\ m_image = entry_image
    /\ Flagged(m_protectionMask) = 1

----
\* C13 (as claimed): resize with a target of 0 for one axis and any
\* non-negative target for the other ends without an error, with that axis
\* empty, also when the other axis is resized as well.
C13_ZeroTargetAccepted ==
    (/\ calls >= 1
     /\ newWidth >= 0
     /\ newHeight >= 0
     /\ newWidth = 0 \/ newHeight = 0)
    => /\ pc # "failed"
       /\ pc = "done" =>
             /\ newWidth = 0 => m_image.cols = 0
             /\ newHeight = 0 => m_image.rows = 0

----
\* C14 (as claimed): on one carver, resize to one column less followed by
\* resize to the width the raster had (same height) always ends with a
\* raster of the dimensions it had at first.
C14_RoundTripDimensions ==
    (calls = 2 /\ pc \in {"done", "failed"}) =>
        /\ pc = "done"
        /\ m_image.cols = entry_image.cols + 1
        /\ m_image.rows = entry_image.rows

----
\* C15 (as claimed): the pixel addVerticalSeams synthesizes after original
\* column c of a row is floor((a + b) / 2) of the pixel a at column c and its
\* right neighbour b, and the pixel at column c itself when c is the last
\* column.
C15_InsertedPixelIsFloorAverage ==
    WidthInserted =>
        \A r \in 1..originalImage.rows : \A j \in 1..seamIdx[r] :
            LET c == rowSeamIndices(seams, r)[j]
                row == originalImage.data[r]
            IN  m_image.data[r][c + j + 1] =
                    IF c < originalImage.cols - 1
                    THEN (row[c + 1] + row[c + 2]) \div 2
                    ELSE row[c + 1]

----
----
\* C17: an omitted width option makes the target width the image's width and
\* an omitted height option makes the target height the image's height; a
\* resize that returns after a width-only request has kept the height, after
\* a height-only request the width.
C17_OmittedOptionKeepsDimension ==
    calls >= 1 =>
        /\ opt_width = -1 => newWidth = entry_image.cols
        /\ opt_height = -1 => newHeight = entry_image.rows
        /\ (status = "ok" /\ opt_width = -1) => m_image.cols = entry_image.cols
        /\ (status = "ok" /\ opt_height = -1) => m_image.rows = entry_image.rows

\* C17 witness: a width-only request has widened a raster of 2 columns to 3
\* and was saved with the height it had.
C17_Witness ==
    /\ pc = "saved"
    /\ opt_height = -1
    /\ opt_width = 3
    /\ entry_image.cols = 2
    /\ output.cols = 3
    /\ output.rows = entry_image.rows

----
\* C18 (as claimed): when the seams recorded by an expansion are handed to
\* the insertion, no two of them hold the same index at the same position.
C18_RecordedSeamsDistinct ==
    pc = "add" =>
        \A a \in 1..Len(seams) : \A b \in 1..Len(seams) :
            a # b => \A r \in 1..Len(seams[a]) : seams[a][r] # seams[b][r]

----
\* TRUE iff the energy map is one calculateEnergy can leave for the raster
\* and the masks as they stand
EnergyOfCurrent ==
    \E grad \in GradientFields(m_image.rows, m_image.cols),
       pread \in ReadsOf(m_protectionMask),
       rread \in ReadsOf(m_removalMask) :
       m_energyMap = ApplyMasks(m_image, grad, m_protectionMask, m_removalMask,
                                pread, rread)

\* C19: control reaches a seam search only out of calculateEnergy, which left
\* the raster and the masks as they were and the energy map computed from
\* them; so every search has its own energy computation right before it and
\* no removal or insertion in between.
C19_EnergyBeforeEverySearch ==
    [][pc' = "find" =>
          /\ pc = "energy"
          /\ m_image' = m_image
          /\ m_protectionMask' = m_protectionMask
          /\ m_removalMask' = m_removalMask
          /\ EnergyOfCurrent']_vars

\* C19 witness: the second iteration of an expansion loop is at its seam
\* search, with an energy map of the working raster's size.
C19_Witness ==
    /\ pc = "find"
    /\ i = 1
    /\ Len(seams) = 1
    /\ m_energyMap.cols = m_image.cols
    /\ m_image.cols = originalImage.cols - 1

----
\* C20 (as claimed): calculateEnergy run while a present mask has other
\* dimensions than the raster ends in a dimension-mismatch error.
C20_MismatchedMaskRejected ==
    [][(pc = "energy" /\ ~MasksFit /\ pc' # pc) =>
          (pc' = "failed" /\ status' = "dimension_mismatch")]_vars

----
\* C21: a removeVerticalSeam or removeHorizontalSeam made where each present
\* mask has the raster's dimensions leaves every surviving pixel with the
\* flag it had in each present mask: where the edited raster holds the pixel
\* the raster held at (r0, c0), each mask holds the cell it held at (r0, c0).
C21_MasksFollowPixels ==
    [][(pc = "remove" /\ MasksFit /\ pc' # "failed") =>
          \A r \in 1..m_image'.rows : \A c \in 1..m_image'.cols :
          \A r0 \in 1..m_image.rows : \A c0 \in 1..m_image.cols :
              m_image'.data[r][c] = m_image.data[r0][c0] =>
                  /\ ~empty(m_protectionMask) =>
                        m_protectionMask'.data[r][c] = m_protectionMask.data[r0][c0]
                  /\ ~empty(m_removalMask) =>
                        m_removalMask'.data[r][c] = m_removalMask.data[r0][c0]]_vars

\* C21 witness: a vertical seam that changes column was removed; a protected
\* pixel right of the seam moved one column to the left, and its flag with it.
C21_Witness ==
    /\ pc = "height"
    /\ phase = "width"
    /\ i = 1
    /\ entry_image.rows = 2
    /\ ~empty(entry_protect)
    /\ seam[1] # seam[2]
    /\ \E r \in 1..2 : \E c \in 2..entry_image.cols :
          /\ entry_protect.data[r][c] > 0
          /\ c - 1 > seam[r]
          /\ m_protectionMask.data[r][c - 1] > 0
          /\ m_image.data[r][c - 1] = entry_image.data[r][c]

----
\* The reference dynamic program, stated on 1-based rows and columns.

\* a <= b on costs
DblLeq(a, b) == ~DblLess(b, a)

\* The in-range neighbours of column c in the row above
Above(energy, c) == {c - 1, c, c + 1} \cap (1..energy.cols)

\* The columns among cands whose cost in row is minimal among cands
Cheapest(row, cands) == {x \in cands : \A y \in cands : DblLeq(row[x], row[y])}

\* The row of the cumulative cost table that follows row prev: each cell adds
\* its energy to the cheapest neighbour above
RefRow(energy, prev, r) ==
    [c \in 1..energy.cols |->
        LET best == CHOOSE x \in Cheapest(prev, Above(energy, c)) : TRUE
        IN  DblAdd(prev[best], energy.data[r][c])]

\* Rows 1..r of the cumulative cost table
RECURSIVE RefCost(_, _)
RefCost(energy, r) ==
    IF r = 1 THEN <<[c \in 1..energy.cols |-> ToDbl(energy.data[1][c])]>>
    ELSE CHOOSE cost \in {Append(above, RefRow(energy, above[r - 1], r)) :
                               above \in {RefCost(energy, r - 1)}} : TRUE

\* The parent of (r, c), r > 1: centre before left before right among the
\* cheapest neighbours above
RefParent(energy, cost, r, c) ==
    LET mins == Cheapest(cost[r - 1], Above(energy, c))
    IN  IF c \in mins THEN c ELSE IF c - 1 \in mins THEN c - 1 ELSE c + 1

\* The end column: the lowest of the cheapest columns of the last row
RefEnd(energy, cost) ==
    LET mins == Cheapest(cost[energy.rows], 1..energy.cols)
    IN  CHOOSE c \in mins : \A y \in mins : c <= y

\* The column of the reference seam in row r
RECURSIVE RefColumn(_, _, _)
RefColumn(energy, cost, r) ==
    IF r = energy.rows THEN RefEnd(energy, cost)
    ELSE RefParent(energy, cost, r + 1, RefColumn(energy, cost, r + 1))

\* The reference seam, as 0-based columns
ReferenceSeam(energy) ==
    CHOOSE sm \in {[r \in 1..energy.rows |-> RefColumn(energy, cost, r) - 1] :
                      cost \in {RefCost(energy, energy.rows)}} : TRUE

\* C22: the seam findVerticalSeam returns is the seam of the reference
\* dynamic program with its tie-breaks (in the height half: on the
\* transposed energy field).
C22_SeamIsReferenceSeam ==
    SeamFound => seam = ReferenceSeam(Searched(m_energyMap))

\* C22 witness: the seam ends in the middle column, whose left and right
\* neighbours above tie below the centre one; the seam goes left.
C22_Witness ==
    /\ SeamFound
    /\ phase = "width"
    /\ m_image.cols = 3
    /\ m_image.rows = 2
    /\ m_energyMap.data[1] = <<0, GRAD_MAX, 0>>
    /\ seam = <<0, 1>>

----
\* TRUE iff mask m flags pixel (r, c) of the raster, 1-based
Flags(m, r, c) == ~empty(m) /\ m.data[r][c] > 0

\* C23: out of calculateEnergy, with masks that have the raster's dimensions,
\* a pixel flagged in the removal mask has energy MIN_ENERGY (also when the
\* protection mask flags it), a pixel flagged in the protection mask only has
\* MAX_ENERGY, and any other pixel has a gradient value in 0..GRAD_MAX.
C23_EnergyByFlags ==
    (pc = "find" /\ MasksFit) =>
        \A r \in 1..m_image.rows, c \in 1..m_image.cols :
            LET e == m_energyMap.data[r][c]
            IN  IF Flags(m_removalMask, r, c) THEN e = MIN_ENERGY
                ELSE IF Flags(m_protectionMask, r, c) THEN e = MAX_ENERGY
                ELSE e \in 0..GRAD_MAX

\* C23 witness: a pixel flagged in both masks got MIN_ENERGY, next to a pixel
\* no mask flags
C23_Witness ==
    /\ pc = "find"
    /\ MasksFit
    /\ \E r \in 1..m_image.rows, c \in 1..m_image.cols :
          /\ Flags(m_removalMask, r, c)
          /\ Flags(m_protectionMask, r, c)
          /\ m_energyMap.data[r][c] = MIN_ENERGY
    /\ \E r \in 1..m_image.rows, c \in 1..m_image.cols :
          /\ ~Flags(m_removalMask, r, c)
          /\ ~Flags(m_protectionMask, r, c)
          /\ m_energyMap.data[r][c] = GRAD_MAX

----
\* The numbers of vertical-seam and of horizontal-seam operations completed
VerticalOps(o) == o.vfind + o.vremove + o.vadd

HorizontalOps(o) == o.hfind + o.hremove + o.hadd

\* C24: a vertical-seam operation (search, removal, insertion) runs in the
\* width half, before any horizontal-seam operation of the call; a
\* horizontal-seam operation runs in the height half, on a raster that has the
\* width the width half was to produce; and the height half is entered with
\* the raster the width half left, and is never left for the width half.
C24_WidthThenHeight ==
    [][/\ VerticalOps(ops') > VerticalOps(ops) =>
              phase = "width" /\ HorizontalOps(ops) = 0
       /\ HorizontalOps(ops') > HorizontalOps(ops) =>
              phase = "height" /\ m_image.cols = newWidth
       /\ (phase = "width" /\ phase' = "height") =>
              m_image' = m_image /\ m_image.cols = newWidth
       /\ phase = "height" => phase' = "height"]_vars

\* C24 witness: a call that changed both dimensions returned; its insertions
\* along both axes are done
C24_Witness ==
    /\ pc = "done"
    /\ ops.vadd = 1
    /\ ops.hadd = 1
    /\ ops.vfind > 0
    /\ ops.hfind > 0

----
\* removeVerticalSeam in the transposed frame: buffer m transposed, the seam's
\* column dropped from each of its rows, and the result transposed back
TransposedDropColumns(m, sm) == t(DropColumns(t(m).data, m.cols, m.rows, sm))

\* C25 (as claimed): findHorizontalSeam returns the seam findVerticalSeam
\* returns on the transposed raster and energy field and leaves the raster,
\* the energy map and the masks as they were; removeHorizontalSeam, with
\* masks of the raster's dimensions, yields the raster and the masks that
\* removeVerticalSeam yields in the transposed frame.
C25_HorizontalIsTransposedVertical ==
    [][/\ (pc = "find" /\ phase = "height" /\ pc' = "remove") =>
              /\ seam' = findVerticalSeam(t(m_image), t(m_energyMap))
              /\ UNCHANGED <<m_image, m_energyMap, m_protectionMask, m_removalMask>>
       /\ (pc = "remove" /\ phase = "height" /\ MasksFit /\ pc' # "failed") =>
              /\ m_image' = TransposedDropColumns(m_image, seam)
              /\ ~empty(m_protectionMask) =>
                     m_protectionMask' = TransposedDropColumns(m_protectionMask, seam)
              /\ ~empty(m_removalMask) =>
                     m_removalMask' = TransposedDropColumns(m_removalMask, seam)]_vars

----
\* C26 (as claimed): in a resize with non-negative targets, control is at
\* calculateEnergy or at a seam search only with a raster that has at least
\* one row and one column.
C26_NoSearchOnEmptyRaster ==
    (pc \in {"energy", "find"} /\ newWidth >= 0 /\ newHeight >= 0) =>
        ~empty(m_image)

----
\* C27 (as claimed): wherever calculateEnergy (past cvtColor),
\* removeVerticalSeam or removeHorizontalSeam is about to read the masks at
\* the raster's coordinates, every coordinate lies inside each present mask.
C27_MaskReadsInsideMask ==
    ((pc = "energy" /\ ~empty(m_image)) \/ pc = "remove") => MaskReadsInRange

----
\* TRUE iff sequence a is an order-preserving subsequence of sequence b
RECURSIVE Embeds(_, _)
Embeds(a, b) ==
    IF a = <<>> THEN TRUE
    ELSE IF b = <<>> THEN FALSE
    ELSE IF Head(a) = Head(b) THEN Embeds(Tail(a), Tail(b))
    ELSE Embeds(a, Tail(b))

\* The state right after addHorizontalSeams of a height expansion
HeightInserted == pc = "return" /\ phase = "height" /\ newHeight > currentHeight

\* TRUE iff the recorded seams hold the same index twice in some row
SeamsShareIndex ==
    \E r \in 1..Len(seams[1]) : \E j, k \in 1..Len(seams) :
        j # k /\ seams[j][r] = seams[k][r]

\* C28: every row of the raster given to addVerticalSeams is an
\* order-preserving subsequence of the same row of the raster it leaves,
\* whatever the seams; in a height expansion, where addVerticalSeams runs on
\* the transposed raster, the same for every column.
C28_InsertionKeepsOriginalRow ==
    /\ WidthInserted =>
           \A r \in 1..originalImage.rows :
               Embeds(originalImage.data[r], m_image.data[r])
    /\ HeightInserted =>
           \A c \in 1..originalImage.cols :
               Embeds(t(originalImage).data[c], t(m_image).data[c])

\* C28 witness: a width expansion by two seams that share an index has
\* inserted into a raster of three columns
C28_Witness ==
    /\ WidthInserted
    /\ originalImage.cols = 3
    /\ originalImage.rows = 2
    /\ Len(seams) = 2
    /\ SeamsShareIndex
    /\ m_image.cols = 5

----
\* |n|
Abs(n) == IF n < 0 THEN -n ELSE n

\* C29 (as claimed): a resize with non-negative targets has, when it ends,
\* made exactly |W1 - W0| vertical and |H1 - H0| horizontal seam searches,
\* one energy computation and one seam removal per search, and one batch
\* insertion for each axis that grows.
C29_ExactSeamCounts ==
    (pc \in {"done", "failed"} /\ newWidth >= 0 /\ newHeight >= 0) =>
        /\ ops.vfind = Abs(newWidth - currentWidth)
        /\ ops.hfind = Abs(newHeight - currentHeight)
        /\ ops.energy = ops.vfind + ops.hfind
        /\ ops.vremove = ops.vfind
        /\ ops.hremove = ops.hfind
        /\ ops.vadd = (IF newWidth > currentWidth THEN 1 ELSE 0)
        /\ ops.hadd = (IF newHeight > currentHeight THEN 1 ELSE 0)

----
\* TRUE iff rectangle inner lies inside rectangle outer
Inside(inner, outer) ==
    /\ outer.x <= inner.x
    /\ outer.y <= inner.y
    /\ inner.x + inner.width <= outer.x + outer.width
    /\ inner.y + inner.height <= outer.y + outer.height

\* C30: the expanded rectangle drawn for a detected face lies inside the
\* image and contains the face rectangle, and the mask is white on the face.
C30_ExpandedFaceInsideImage ==
    (cfm.pc = "loop" /\ cfm.i >= 1) =>
        LET face == cfm.faces[cfm.i]
        IN  /\ Inside(cfm.expandedFace, Rect(0, 0, cfm.cols, cfm.rows))
            /\ Inside(face, cfm.expandedFace)
            /\ \A r \in 1..cfm.rows, c \in 1..cfm.cols :
                   cfm.mask.data[r][c] > 0 <=>
                       Inside(Rect(c - 1, r - 1, 1, 1), cfm.expandedFace)

\* C30 witness: a face whose expansion fits on the left and is clipped on the
\* right and at the bottom
C30_Witness ==
    /\ cfm.pc = "loop"
    /\ cfm.i = 1
    /\ cfm.expandedFace.x > 0
    /\ cfm.expandedFace.x < cfm.faces[1].x
    /\ cfm.expandedFace.x + cfm.expandedFace.width = cfm.cols
    /\ cfm.faces[1].x + cfm.faces[1].width < cfm.cols
    /\ cfm.expandedFace.y + cfm.expandedFace.height = cfm.rows
    /\ cfm.faces[1].y + cfm.faces[1].height < cfm.rows

====
